---- MODULE Spec2Model ----
(***************************************************************************)
(* Model of privilege-auth.mjs: the four op builders of the TAP privilege  *)
(* authority boilerplate (signAuth, signMint, signDmtMint,                 *)
(* signVerification), each an async function with one await point          *)
(* (secp.signAsync).                                                       *)
(*                                                                         *)
(* JavaScript values are tagged records [t, v]; strings are sequences of   *)
(* one-character strings, so that concatenation, toLowerCase, '' + x and   *)
(* JSON.stringify are computed rather than assumed.                        *)
(*                                                                         *)
(* Cryptography is idealised: sha256 is collision free (a digest is        *)
(* identified by its preimage) and an ECDSA signature is valid for exactly *)
(* the digest and key it was made with.                                    *)
(***************************************************************************)
EXTENDS Integers, Sequences, FiniteSets

VARIABLES
    pc,           \* per call: "idle", "await" (at secp.signAsync), "done", "rejected"
    kind,         \* per call: which builder runs
    args,         \* per call: the arguments it was called with
    proto,        \* per call: the local proto
    msgHash,      \* per call: the local msgHash
    signature,    \* per call: the local signature
    test_msgHash, \* per call: the local test_msgHash
    test,         \* per call: the test member of the returned value
    result,       \* per call: the result member of the returned value
    thrown,       \* per call: the error the returned promise rejected with
    reverify      \* the last re-verification of an emitted op by a third party

vars == <<pc, kind, args, proto, msgHash, signature, test_msgHash, test, result,
          thrown, reverify>>

(***************************************************************************)
(* Bounds of the model.                                                    *)
(***************************************************************************)
\* number of distinct signature nonces secp.signAsync may pick
MaxNonce == 2

\* builder invocations that may be in flight at once; the statements about
\* several invocations compare them two by two
Calls == {1, 2}
Nonces == 1..MaxNonce

(***************************************************************************)
(* JavaScript values.                                                      *)
(***************************************************************************)
Str(chars) == [t |-> "str", v |-> chars]
\* a finite number, held by its decimal form
Num(chars) == [t |-> "num", v |-> chars]
NaN == [t |-> "nan", v |-> <<>>]
Null == [t |-> "null", v |-> <<>>]
Undefined == [t |-> "undef", v |-> <<>>]
\* an object: its own properties in insertion order
Obj(props) == [t |-> "obj", v |-> props]
Prop(k, x) == [k |-> k, x |-> x]

Same(a, b) == a.t = b.t /\ a.v = b.v

\* property names
kP == <<"p">>
kOp == <<"o", "p">>
kSig == <<"s", "i", "g">>
kHash == <<"h", "a", "s", "h">>
kSalt == <<"s", "a", "l", "t">>
kTick == <<"t", "i", "c", "k">>
kAmt == <<"a", "m", "t">>
kPrv == <<"p", "r", "v">>
kAddress == <<"a", "d", "d", "r", "e", "s", "s">>
kBlk == <<"b", "l", "k">>
kDep == <<"d", "e", "p">>
kVerify == <<"v", "e", "r", "i", "f", "y">>
kCol == <<"c", "o", "l">>
kSeq == <<"s", "e", "q">>
kV == <<"v">>
kR == <<"r">>
kS == <<"s">>

\* protocol literals
sTap == <<"t", "a", "p">>
sPrivilegeAuth == <<"p", "r", "i", "v", "i", "l", "e", "g", "e", "-", "a", "u", "t", "h">>
sTokenMint == <<"t", "o", "k", "e", "n", "-", "m", "i", "n", "t">>
sDmtMint == <<"d", "m", "t", "-", "m", "i", "n", "t">>
sHyphen == <<"-">>

\* obj[key]
HasProp(o, key) == \E i \in 1..Len(o.v) : o.v[i].k = key
Get(o, key) ==
    IF o.t = "obj" /\ HasProp(o, key)
    THEN o.v[CHOOSE i \in 1..Len(o.v) : o.v[i].k = key].x
    ELSE Undefined

\* obj[key] = x : an existing property keeps its position, a new one is appended
Set(o, key, x) ==
    IF HasProp(o, key)
    THEN Obj([i \in 1..Len(o.v) |-> IF o.v[i].k = key THEN Prop(key, x) ELSE o.v[i]])
    ELSE Obj(Append(o.v, Prop(key, x)))

\* '' + x
StringOf(x) ==
    CASE x.t = "str" -> x.v
      [] x.t = "num" -> x.v
      [] x.t = "nan" -> <<"N", "a", "N">>
      [] x.t = "null" -> <<"n", "u", "l", "l">>
      [] x.t = "undef" -> <<"u", "n", "d", "e", "f", "i", "n", "e", "d">>
      [] x.t = "obj" -> <<"[", "o", "b", "j", "e", "c", "t", " ", "O", "b", "j", "e", "c", "t", "]">>

UpperAlphabet == <<"A", "B", "C", "D", "E", "F", "G", "H", "I", "J", "K", "L", "M",
                   "N", "O", "P", "Q", "R", "S", "T", "U", "V", "W", "X", "Y", "Z">>
LowerAlphabet == <<"a", "b", "c", "d", "e", "f", "g", "h", "i", "j", "k", "l", "m",
                   "n", "o", "p", "q", "r", "s", "t", "u", "v", "w", "x", "y", "z">>
LowerChar(c) ==
    IF \E i \in 1..26 : UpperAlphabet[i] = c
    THEN LowerAlphabet[CHOOSE i \in 1..26 : UpperAlphabet[i] = c]
    ELSE c
\* String.prototype.toLowerCase
toLowerCase(x) == Str([i \in 1..Len(x.v) |-> LowerChar(x.v[i])])

\* the characters of a JSON string literal: a quote or a backslash is escaped
RECURSIVE Escaped(_)
Escaped(chars) ==
    IF chars = <<>> THEN <<>>
    ELSE (IF Head(chars) \in {"\"", "\\"} THEN <<"\\", Head(chars)>> ELSE <<Head(chars)>>)
         \o Escaped(Tail(chars))

RECURSIVE JSONStringify(_)
RECURSIVE JSONMembers(_, _)
\* the members of an object's JSON text from property i on; a property whose
\* value is undefined is left out
JSONMembers(props, i) ==
    IF i > Len(props) THEN <<>>
    ELSE LET rest == JSONMembers(props, i + 1)
             here == <<"\"">> \o Escaped(props[i].k) \o <<"\"", ":">> \o JSONStringify(props[i].x)
         IN  IF props[i].x.t = "undef" THEN rest
             ELSE IF rest = <<>> THEN here
             ELSE here \o <<",">> \o rest
\* JSON.stringify(x) followed by string concatenation (undefined prints as
\* "undefined", a non-finite number as null)
JSONStringify(x) ==
    CASE x.t = "str" -> <<"\"">> \o Escaped(x.v) \o <<"\"">>
      [] x.t = "num" -> x.v
      [] x.t = "nan" -> <<"n", "u", "l", "l">>
      [] x.t = "null" -> <<"n", "u", "l", "l">>
      [] x.t = "undef" -> <<"u", "n", "d", "e", "f", "i", "n", "e", "d">>
      [] x.t = "obj" -> <<"{">> \o JSONMembers(x.v, 1) \o <<"}">>

RECURSIVE JSONRoundTrip(_)
RECURSIVE RoundTripProps(_, _)
RoundTripProps(props, i) ==
    IF i > Len(props) THEN <<>>
    ELSE IF props[i].x.t = "undef" THEN RoundTripProps(props, i + 1)
    ELSE <<Prop(props[i].k, JSONRoundTrip(props[i].x))>> \o RoundTripProps(props, i + 1)
\* JSON.parse(JSON.stringify(x))
JSONRoundTrip(x) ==
    CASE x.t = "nan" -> Null
      [] x.t = "obj" -> Obj(RoundTripProps(x.v, 1))
      [] OTHER -> x

(***************************************************************************)
(* Integers and their decimal strings.                                     *)
(***************************************************************************)
DigitChar == <<"0", "1", "2", "3", "4", "5", "6", "7", "8", "9">>
DigitOf(c) == CHOOSE d \in 0..9 : DigitChar[d + 1] = c

RECURSIVE DecStr(_)
\* '' + n and n.toString() of a non-negative integer
DecStr(n) ==
    IF n < 10 THEN <<DigitChar[n + 1]>>
    ELSE DecStr(n \div 10) \o <<DigitChar[(n % 10) + 1]>>

RECURSIVE ParseDec(_)
\* parseInt(s) and BigInt(s) of a decimal string
ParseDec(chars) ==
    IF Len(chars) = 1 THEN DigitOf(chars[1])
    ELSE ParseDec(SubSeq(chars, 1, Len(chars) - 1)) * 10 + DigitOf(chars[Len(chars)])

\* index of the first ch in chars at or after position from (0 if none)
RECURSIVE IndexOf(_, _, _)
IndexOf(chars, ch, from) ==
    IF from > Len(chars) THEN 0
    ELSE IF chars[from] = ch THEN from
    ELSE IndexOf(chars, ch, from + 1)

(***************************************************************************)
(* Hashing and secp256k1, idealised.                                       *)
(*   A digest is identified by the string that was hashed.                 *)
(*   The s component of a signature is determined by (key, nonce, digest)  *)
(*   and determines them; its decimal string is the three joined by "_".   *)
(*   r is the nonce point's coordinate, recovery its parity.               *)
(***************************************************************************)
sha256(content) == [sha |-> content]

\* Buffer.from(msgHash).toString('hex')
ToHex(digest) == <<"#">> \o digest.sha

\* secp.getPublicKey
GetPublicKey(privKey) == [pt |-> privKey]
\* a point that is the public key of no key pair
StrayPoint == [pt |-> 0]

\* the range check secp.signAsync makes on the private key (0 < key)
PrivateKeyValid(privKey) == privKey /= 0

\* secp.signAsync(msgHash, privKey), the nonce being k
Sign(digest, privKey, k) ==
    [recovery |-> k % 2, r |-> k, s |-> [key |-> privKey, k |-> k, d |-> digest]]

\* signature.s.toString()
BigIntToString(s) == DecStr(s.key) \o <<"_">> \o DecStr(s.k) \o <<"_">> \o s.d.sha

\* BigInt(proto.sig.s)
BigIntOf(chars) ==
    LET i == IndexOf(chars, "_", 1)
        j == IndexOf(chars, "_", i + 1)
    IN  [key |-> ParseDec(SubSeq(chars, 1, i - 1)),
         k |-> ParseDec(SubSeq(chars, i + 1, j - 1)),
         d |-> sha256(SubSeq(chars, j + 1, Len(chars)))]

\* secp.verify(signature, digest, pubKey)
Verify(sig, digest, pubKey) ==
    /\ sig.s.d = digest
    /\ sig.s.k = sig.r
    /\ GetPublicKey(sig.s.key) = pubKey

\* signature.recoverPublicKey(digest)
RecoverPublicKey(sig, digest) ==
    IF sig.s.d = digest /\ sig.s.k = sig.r /\ sig.recovery = sig.r % 2
    THEN GetPublicKey(sig.s.key)
    ELSE StrayPoint

\* { v : '' + signature.recovery, r : signature.r.toString(), s : signature.s.toString() }
SigObject(sig) ==
    Obj(<<Prop(kV, Str(DecStr(sig.recovery))),
          Prop(kR, Str(DecStr(sig.r))),
          Prop(kS, Str(BigIntToString(sig.s)))>>)

\* new secp.Signature(BigInt(sig.r), BigInt(sig.s), parseInt(sig.v))
SignatureOf(sigObj) ==
    [recovery |-> ParseDec(Get(sigObj, kV).v),
     r |-> ParseDec(Get(sigObj, kR).v),
     s |-> BigIntOf(Get(sigObj, kS).v)]

(***************************************************************************)
(* The builders, statement by statement.                                   *)
(***************************************************************************)
\* createKeyPair: the public key is derived from the private key
KeyPair(privKey) == [pk |-> privKey, pub |-> GetPublicKey(privKey)]

\* the self check every builder ends with: verify takes the re-derived
\* digest, recoverPublicKey the signature rebuilt from proto and msgHash
SelfTest(sig, sigObj, testDigest, digest, pubKey) ==
    [valid |-> Verify(sig, testDigest, pubKey),
     pub |-> pubKey,
     pubRecovered |-> RecoverPublicKey(SignatureOf(sigObj), digest)]

\* ---- signAuth
AuthProto(salt) ==
    Obj(<<Prop(kP, Str(sTap)),
          Prop(kOp, Str(sPrivilegeAuth)),
          Prop(kSig, Null),
          Prop(kHash, Null),
          Prop(kSalt, Str(StringOf(salt)))>>)

\* JSON.stringify(message) + proto.salt
AuthCanonical(message, p) == JSONStringify(message) \o StringOf(Get(p, kSalt))

\* proto[messageKey] = message; proto.sig = ...; proto.hash = ...
AuthAssemble(p, messageKey, message, sig, digest) ==
    Set(Set(Set(p, messageKey, message), kSig, SigObject(sig)), kHash, Str(ToHex(digest)))

\* JSON.stringify(test_proto[messageKey]) + test_proto.salt
AuthTestCanonical(tp, messageKey) ==
    JSONStringify(Get(tp, messageKey)) \o StringOf(Get(tp, kSalt))

\* ---- signMint
MintProto(ticker, amount, address, salt) ==
    Obj(<<Prop(kP, Str(sTap)),
          Prop(kOp, Str(sTokenMint)),
          Prop(kTick, ticker),
          Prop(kAmt, amount),
          Prop(kPrv, Obj(<<Prop(kSig, Null),
                           Prop(kHash, Null),
                           Prop(kAddress, address),
                           Prop(kSalt, Str(StringOf(salt)))>>))>>)

\* the amount put before the ticker
MintCanonicalAmountFirst(p) ==
    StringOf(Get(p, kP)) \o sHyphen \o StringOf(Get(p, kOp)) \o sHyphen
    \o StringOf(Get(p, kAmt)) \o sHyphen \o StringOf(Get(p, kTick)) \o sHyphen
    \o StringOf(Get(Get(p, kPrv), kAddress)) \o sHyphen \o StringOf(Get(Get(p, kPrv), kSalt))

MintCanonical(p) ==
    StringOf(Get(p, kP)) \o sHyphen \o StringOf(Get(p, kOp)) \o sHyphen
    \o StringOf(Get(p, kTick)) \o sHyphen \o StringOf(Get(p, kAmt)) \o sHyphen
    \o StringOf(Get(Get(p, kPrv), kAddress)) \o sHyphen \o StringOf(Get(Get(p, kPrv), kSalt))

MintTestCanonical(tp) ==
    StringOf(Get(tp, kP)) \o sHyphen \o StringOf(Get(tp, kOp)) \o sHyphen
    \o StringOf(Get(tp, kTick)) \o sHyphen \o StringOf(Get(tp, kAmt)) \o sHyphen
    \o StringOf(Get(Get(tp, kPrv), kAddress)) \o sHyphen \o StringOf(Get(Get(tp, kPrv), kSalt))

\* proto.prv.sig = ...; proto.prv.hash = ... (signMint and signDmtMint)
PrvAssemble(p, sig, digest) ==
    Set(p, kPrv, Set(Set(Get(p, kPrv), kSig, SigObject(sig)), kHash, Str(ToHex(digest))))

\* ---- signDmtMint
\* the ticker kept as given
DmtProtoKeepCase(ticker, block, dependency, address, salt) ==
    Obj(<<Prop(kP, Str(sTap)),
          Prop(kOp, Str(sDmtMint)),
          Prop(kTick, ticker),
          Prop(kBlk, block),
          Prop(kDep, dependency),
          Prop(kPrv, Obj(<<Prop(kSig, Null),
                           Prop(kHash, Null),
                           Prop(kAddress, address),
                           Prop(kSalt, Str(StringOf(salt)))>>))>>)

DmtProto(ticker, block, dependency, address, salt) ==
    Obj(<<Prop(kP, Str(sTap)),
          Prop(kOp, Str(sDmtMint)),
          Prop(kTick, toLowerCase(ticker)),
          Prop(kBlk, block),
          Prop(kDep, dependency),
          Prop(kPrv, Obj(<<Prop(kSig, Null),
                           Prop(kHash, Null),
                           Prop(kAddress, address),
                           Prop(kSalt, Str(StringOf(salt)))>>))>>)

DmtCanonical(p) ==
    StringOf(Get(p, kP)) \o sHyphen \o StringOf(Get(p, kOp)) \o sHyphen
    \o StringOf(Get(p, kTick)) \o sHyphen \o StringOf(Get(p, kBlk)) \o sHyphen
    \o StringOf(Get(p, kDep)) \o sHyphen
    \o StringOf(Get(Get(p, kPrv), kAddress)) \o sHyphen \o StringOf(Get(Get(p, kPrv), kSalt))

DmtTestCanonical(tp) ==
    StringOf(Get(tp, kP)) \o sHyphen \o StringOf(Get(tp, kOp)) \o sHyphen
    \o StringOf(Get(tp, kTick)) \o sHyphen \o StringOf(Get(tp, kBlk)) \o sHyphen
    \o StringOf(Get(tp, kDep)) \o sHyphen
    \o StringOf(Get(Get(tp, kPrv), kAddress)) \o sHyphen \o StringOf(Get(Get(tp, kPrv), kSalt))

\* ---- signVerification
VerificationProto(privilege_authority_id, sha256_hash, collection, sequence, address, salt) ==
    Obj(<<Prop(kP, Str(sTap)),
          Prop(kOp, Str(sPrivilegeAuth)),
          Prop(kSig, Null),
          Prop(kHash, Null),
          Prop(kAddress, address),
          Prop(kSalt, Str(StringOf(salt))),
          Prop(kPrv, privilege_authority_id),
          Prop(kVerify, sha256_hash),
          Prop(kCol, collection),
          Prop(kSeq, sequence)>>)

\* the salt left out of the hashed string
VerificationCanonicalSaltless(p) ==
    StringOf(Get(p, kPrv)) \o sHyphen \o StringOf(Get(p, kCol)) \o sHyphen
    \o StringOf(Get(p, kVerify)) \o sHyphen \o StringOf(Get(p, kSeq)) \o sHyphen
    \o StringOf(Get(p, kAddress))

VerificationCanonical(p) ==
    StringOf(Get(p, kPrv)) \o sHyphen \o StringOf(Get(p, kCol)) \o sHyphen
    \o StringOf(Get(p, kVerify)) \o sHyphen \o StringOf(Get(p, kSeq)) \o sHyphen
    \o StringOf(Get(p, kAddress)) \o sHyphen \o StringOf(Get(p, kSalt))

VerificationTestCanonical(tp) ==
    StringOf(Get(tp, kPrv)) \o sHyphen \o StringOf(Get(tp, kCol)) \o sHyphen
    \o StringOf(Get(tp, kVerify)) \o sHyphen \o StringOf(Get(tp, kSeq)) \o sHyphen
    \o StringOf(Get(tp, kAddress)) \o sHyphen \o StringOf(Get(tp, kSalt))

\* proto.sig = ...; proto.hash = ... (signVerification)
TopAssemble(p, sig, digest) ==
    Set(Set(p, kSig, SigObject(sig)), kHash, Str(ToHex(digest)))

(***************************************************************************)
(* Where things sit in an op, and the digest re-derived from its fields.   *)
(***************************************************************************)
Nested(k) == k \in {"signMint", "signDmtMint"}

\* the fields that enter the canonical string, per kind
CanonicalFields(k) ==
    CASE k = "signAuth" -> {kSalt}
      [] k = "signMint" -> {kTick, kAmt, kAddress, kSalt}
      [] k = "signDmtMint" -> {kTick, kBlk, kDep, kAddress, kSalt}
      [] k = "signVerification" -> {kPrv, kCol, kVerify, kSeq, kAddress, kSalt}

\* where a field sits in the op
FieldOf(k, op, field) ==
    IF Nested(k) /\ field \in {kAddress, kSalt}
    THEN Get(Get(op, kPrv), field)
    ELSE Get(op, field)

WithField(k, op, field, x) ==
    IF Nested(k) /\ field \in {kAddress, kSalt}
    THEN Set(op, kPrv, Set(Get(op, kPrv), field, x))
    ELSE Set(op, field, x)

EmbeddedSig(k, op) == IF Nested(k) THEN Get(Get(op, kPrv), kSig) ELSE Get(op, kSig)
EmbeddedHash(k, op) == IF Nested(k) THEN Get(Get(op, kPrv), kHash) ELSE Get(op, kHash)

\* the digest a hex string stands for
FromHex(chars) == sha256(Tail(chars))

\* the canonical string re-derived from a parsed op
ReDerive(k, op, messageKey) ==
    CASE k = "signAuth" -> AuthTestCanonical(op, messageKey)
      [] k = "signMint" -> MintTestCanonical(op)
      [] k = "signDmtMint" -> DmtTestCanonical(op)
      [] k = "signVerification" -> VerificationTestCanonical(op)

MessageKeyOf(c) == IF kind[c] = "signAuth" THEN args[c].messageKey ELSE <<>>

\* JSON.parse(result)
EmittedOp(c) == JSONRoundTrip(proto[c])

\* the digest a builder trusts instead of re-deriving it: the embedded hash
DigestFromEmbeddedHash(k, op, messageKey) == FromHex(EmbeddedHash(k, op).v)

\* test_msgHash: sha256 of the canonical string re-derived from test_proto
ReDerivedDigest(k, op, messageKey) == sha256(ReDerive(k, op, messageKey))

(***************************************************************************)
(* Arguments the builders are called with.                                 *)
(***************************************************************************)
\* private keys: 0 is out of range, the others are valid scalars
PrivKeys == {0, 1, 2}

sAuth == <<"a", "u", "t", "h">>
\* messageKey: the key of the demo, and the keys proto already has
MessageKeys == {sAuth, kP, kOp, kSig, kHash, kSalt}
Messages == {Obj(<<Prop(<<"n", "a", "m", "e">>, Str(<<"x">>))>>)}

\* salts: a number, the string that prints like it, another string
Salts == {Num(<<"1">>), Str(<<"1">>), Str(<<"2">>)}

Tickers == {Str(<<"N", "A", "T">>), Str(<<"n", "a", "t">>)}
Amounts == {Num(<<"1">>), Str(<<"1">>), NaN}
Addresses == {Str(<<"t", "b", "1">>)}
Blocks == {Num(<<"7">>)}
Dependencies == {Str(<<"d", "i", "0">>)}
AuthorityIds == {Str(<<"e", "i", "0">>)}
ContentHashes == {Str(<<"c", "e">>)}
Collections == {Str(<<"s", " ", "c">>)}

\* Number.MAX_SAFE_INTEGER and the integer after it
sMaxSafe == <<"9", "0", "0", "7", "1", "9", "9", "2", "5", "4", "7", "4", "0", "9", "9", "1">>
sAboveMaxSafe == <<"9", "0", "0", "7", "1", "9", "9", "2", "5", "4", "7", "4", "0", "9", "9", "2">>
Sequences == {Num(<<"0">>), Num(sMaxSafe), Num(sAboveMaxSafe)}

(***************************************************************************)
(* State.                                                                  *)
(***************************************************************************)
NoDigest == sha256(<<>>)
NoSignature == Sign(NoDigest, 0, 0)
NoTest == [valid |-> FALSE, pub |-> StrayPoint, pubRecovered |-> StrayPoint]
NoReverify == [c |-> 0]

Init ==
    /\ pc = [c \in Calls |-> "idle"]
    /\ kind = [c \in Calls |-> "none"]
    /\ args = [c \in Calls |-> [privKey |-> 0]]
    /\ proto = [c \in Calls |-> Null]
    /\ msgHash = [c \in Calls |-> NoDigest]
    /\ signature = [c \in Calls |-> NoSignature]
    /\ test_msgHash = [c \in Calls |-> NoDigest]
    /\ test = [c \in Calls |-> NoTest]
    /\ result = [c \in Calls |-> <<>>]
    /\ thrown = [c \in Calls |-> "none"]
    /\ reverify = NoReverify

\* a builder runs up to its await: proto is built, msgHash computed, and
\* secp.signAsync is pending
Enter(c, k, a, p, canonical) ==
    /\ pc' = [pc EXCEPT ![c] = "await"]
    /\ kind' = [kind EXCEPT ![c] = k]
    /\ args' = [args EXCEPT ![c] = a]
    /\ proto' = [proto EXCEPT ![c] = p]
    /\ msgHash' = [msgHash EXCEPT ![c] = sha256(canonical)]
    /\ UNCHANGED <<signature, test_msgHash, test, result, thrown, reverify>>

\* a builder runs from its await to its return
Leave(c, sig, p, testDigest, report) ==
    /\ pc' = [pc EXCEPT ![c] = "done"]
    /\ signature' = [signature EXCEPT ![c] = sig]
    /\ proto' = [proto EXCEPT ![c] = p]
    /\ test_msgHash' = [test_msgHash EXCEPT ![c] = testDigest]
    /\ test' = [test EXCEPT ![c] = report]
    /\ result' = [result EXCEPT ![c] = JSONStringify(p)]
    /\ UNCHANGED <<kind, args, msgHash, thrown, reverify>>

(***************************************************************************)
(* signAuth                                                                *)
(***************************************************************************)
SignAuthCall(c, privKey, messageKey, message, salt) ==
    /\ pc[c] = "idle"
    /\ LET p == AuthProto(salt)
       IN  Enter(c, "signAuth",
              [privKey |-> privKey, pubKey |-> KeyPair(privKey).pub,
               messageKey |-> messageKey, message |-> message, salt |-> salt],
              p, AuthCanonical(message, p))

SignAuthResume(c, k) ==
    /\ pc[c] = "await"
    /\ kind[c] = "signAuth"
    /\ PrivateKeyValid(args[c].privKey)
    /\ LET sig == Sign(msgHash[c], args[c].privKey, k)
           p == AuthAssemble(proto[c], args[c].messageKey, args[c].message, sig, msgHash[c])
           test_proto == JSONRoundTrip(p)
           testDigest == ReDerivedDigest("signAuth", test_proto, args[c].messageKey)
       IN  Leave(c, sig, p, testDigest,
                 SelfTest(sig, Get(p, kSig), testDigest, msgHash[c], args[c].pubKey))

(***************************************************************************)
(* signMint                                                                *)
(***************************************************************************)
SignMintCall(c, privKey, ticker, amount, address, salt) ==
    /\ pc[c] = "idle"
    /\ LET p == MintProto(ticker, amount, address, salt)
       IN  Enter(c, "signMint",
              [privKey |-> privKey, pubKey |-> KeyPair(privKey).pub,
               ticker |-> ticker, amount |-> amount, address |-> address, salt |-> salt],
              p, MintCanonical(p))

SignMintResume(c, k) ==
    /\ pc[c] = "await"
    /\ kind[c] = "signMint"
    /\ PrivateKeyValid(args[c].privKey)
    /\ LET sig == Sign(msgHash[c], args[c].privKey, k)
           p == PrvAssemble(proto[c], sig, msgHash[c])
           test_proto == JSONRoundTrip(p)
           testDigest == ReDerivedDigest("signMint", test_proto, <<>>)
       IN  Leave(c, sig, p, testDigest,
                 SelfTest(sig, Get(Get(p, kPrv), kSig), testDigest, msgHash[c], args[c].pubKey))

(***************************************************************************)
(* signDmtMint                                                             *)
(***************************************************************************)
SignDmtMintCall(c, privKey, ticker, block, dependency, address, salt) ==
    /\ pc[c] = "idle"
    /\ LET p == DmtProto(ticker, block, dependency, address, salt)
       IN  Enter(c, "signDmtMint",
              [privKey |-> privKey, pubKey |-> KeyPair(privKey).pub,
               ticker |-> ticker, block |-> block, dependency |-> dependency,
               address |-> address, salt |-> salt],
              p, DmtCanonical(p))

SignDmtMintResume(c, k) ==
    /\ pc[c] = "await"
    /\ kind[c] = "signDmtMint"
    /\ PrivateKeyValid(args[c].privKey)
    /\ LET sig == Sign(msgHash[c], args[c].privKey, k)
           p == PrvAssemble(proto[c], sig, msgHash[c])
           test_proto == JSONRoundTrip(p)
           testDigest == ReDerivedDigest("signDmtMint", test_proto, <<>>)
       IN  Leave(c, sig, p, testDigest,
                 SelfTest(sig, Get(Get(p, kPrv), kSig), testDigest, msgHash[c], args[c].pubKey))

(***************************************************************************)
(* signVerification                                                        *)
(***************************************************************************)
SignVerificationCall(c, privKey, privilege_authority_id, sha256_hash, collection, sequence, address, salt) ==
    /\ pc[c] = "idle"
    /\ LET p == VerificationProto(privilege_authority_id, sha256_hash, collection,
                               sequence, address, salt)
       IN  Enter(c, "signVerification",
              [privKey |-> privKey, pubKey |-> KeyPair(privKey).pub,
               privilege_authority_id |-> privilege_authority_id,
               sha256_hash |-> sha256_hash, collection |-> collection,
               sequence |-> sequence, address |-> address, salt |-> salt],
              p, VerificationCanonical(p))

SignVerificationResume(c, k) ==
    /\ pc[c] = "await"
    /\ kind[c] = "signVerification"
    /\ PrivateKeyValid(args[c].privKey)
    /\ LET sig == Sign(msgHash[c], args[c].privKey, k)
           p == TopAssemble(proto[c], sig, msgHash[c])
           test_proto == JSONRoundTrip(p)
           testDigest == ReDerivedDigest("signVerification", test_proto, <<>>)
       IN  Leave(c, sig, p, testDigest,
                 SelfTest(sig, Get(p, kSig), testDigest, msgHash[c], args[c].pubKey))

(***************************************************************************)
(* secp.signAsync rejects a private key that is out of range; the builder  *)
(* has no handler, so its promise rejects and nothing is returned.         *)
(***************************************************************************)
SignAsyncReject(c) ==
    /\ pc[c] = "await"
    /\ ~PrivateKeyValid(args[c].privKey)
    /\ pc' = [pc EXCEPT ![c] = "rejected"]
    /\ thrown' = [thrown EXCEPT ![c] = "Error"]
    /\ UNCHANGED <<kind, args, proto, msgHash, signature, test_msgHash, test, result, reverify>>

(***************************************************************************)
(* A third party re-verifies an emitted op: it parses the text, here with  *)
(* one field changed to x, re-derives the digest from the op's fields the  *)
(* way the builder's self check does, and verifies the embedded signature  *)
(* against the signer's public key.                                        *)
(***************************************************************************)
Reverify(c, field, x) ==
    /\ pc[c] = "done"
    /\ reverify = NoReverify
    /\ field \in CanonicalFields(kind[c])
    /\ ~Same(FieldOf(kind[c], EmittedOp(c), field), x)
    /\ LET op == WithField(kind[c], EmittedOp(c), field, x)
           digest == ReDerivedDigest(kind[c], op, MessageKeyOf(c))
       IN  reverify' =
               [c |-> c, field |-> field, signed |-> FieldOf(kind[c], proto[c], field),
                was |-> FieldOf(kind[c], EmittedOp(c), field), now |-> x,
                valid |-> Verify(SignatureOf(EmbeddedSig(kind[c], op)), digest, args[c].pubKey)]
    /\ UNCHANGED <<pc, kind, args, proto, msgHash, signature, test_msgHash, test, result, thrown>>

\* the values a field is changed to
TamperValues ==
    {Str(<<"1">>), Num(<<"1">>), Str(<<"2">>), Num(<<"2">>), Null,
     Str(<<"N", "a", "N">>), Str(<<"n", "a", "t">>), Str(<<"N", "A", "T">>)}

AllFields == {kSalt, kTick, kAmt, kAddress, kBlk, kDep, kPrv, kCol, kVerify, kSeq}

(***************************************************************************)
(* The program.                                                            *)
(***************************************************************************)
Calling(c, keys, messageKeys, amounts, sequences) ==
    \/ \E privKey \in keys, messageKey \in messageKeys, message \in Messages,
          salt \in Salts :
          SignAuthCall(c, privKey, messageKey, message, salt)
    \/ \E privKey \in keys, ticker \in Tickers, amount \in amounts,
          address \in Addresses, salt \in Salts :
          SignMintCall(c, privKey, ticker, amount, address, salt)
    \/ \E privKey \in keys, ticker \in Tickers, block \in Blocks,
          dependency \in Dependencies, address \in Addresses, salt \in Salts :
          SignDmtMintCall(c, privKey, ticker, block, dependency, address, salt)
    \/ \E privKey \in keys, id \in AuthorityIds, hash \in ContentHashes,
          collection \in Collections, sequence \in sequences,
          address \in Addresses, salt \in Salts :
          SignVerificationCall(c, privKey, id, hash, collection, sequence, address, salt)

Resuming(c) ==
    \/ \E k \in Nonces : SignAuthResume(c, k)
    \/ \E k \in Nonces : SignMintResume(c, k)
    \/ \E k \in Nonces : SignDmtMintResume(c, k)
    \/ \E k \in Nonces : SignVerificationResume(c, k)

\* one builder call, awaited: the top level of the module makes its calls
\* this way, each awaited before the next
Next ==
    \/ Calling(1, PrivKeys, MessageKeys, Amounts, Sequences)
    \/ Resuming(1)
    \/ SignAsyncReject(1)

Spec == Init /\ [][Next]_vars

\* several builder calls in flight, interleaved at their await points, for
\* the same or different authorities
NextConcurrent ==
    \E c \in Calls :
        \/ Calling(c, {1, 2}, {sAuth, kHash}, {Num(<<"1">>)}, {Num(<<"0">>)})
        \/ Resuming(c)

SpecConcurrent == Init /\ [][NextConcurrent]_vars

\* one builder call, whose op is then re-verified with one field changed
NextTamper ==
    \/ Calling(1, PrivKeys, MessageKeys, Amounts, Sequences)
    \/ Resuming(1)
    \/ SignAsyncReject(1)
    \/ \E field \in AllFields, x \in TamperValues : Reverify(1, field, x)

SpecTamper == Init /\ [][NextTamper]_vars

(***************************************************************************)
(* Properties.                                                             *)
(***************************************************************************)
Done(c) == pc[c] = "done"
Entered(c) == pc[c] \in {"await", "done", "rejected"}
sNAT == Str(<<"N", "A", "T">>)
snat == Str(<<"n", "a", "t">>)

\* C1: every builder call made with a valid key pair returns a report with
\* valid = true and pubRecovered equal to the key pair's public key.
C1_RoundTrip ==
    \A c \in Calls :
        Done(c) =>
            /\ test[c].valid = TRUE
            /\ test[c].pubRecovered = KeyPair(args[c].privKey).pub

\* the canonical string of each kind, written out from the arguments
sTapTokenMintHyphen ==
    <<"t", "a", "p", "-", "t", "o", "k", "e", "n", "-", "m", "i", "n", "t", "-">>
sTapDmtMintHyphen ==
    <<"t", "a", "p", "-", "d", "m", "t", "-", "m", "i", "n", "t", "-">>
CanonicalOfArgs(k, a) ==
    CASE k = "signAuth" ->
            JSONStringify(a.message) \o StringOf(a.salt)
      [] k = "signMint" ->
            sTapTokenMintHyphen \o StringOf(a.ticker) \o <<"-">> \o StringOf(a.amount)
            \o <<"-">> \o StringOf(a.address) \o <<"-">> \o StringOf(a.salt)
      [] k = "signDmtMint" ->
            sTapDmtMintHyphen \o toLowerCase(a.ticker).v \o <<"-">> \o StringOf(a.block)
            \o <<"-">> \o StringOf(a.dependency) \o <<"-">> \o StringOf(a.address)
            \o <<"-">> \o StringOf(a.salt)
      [] k = "signVerification" ->
            StringOf(a.privilege_authority_id) \o <<"-">> \o StringOf(a.collection)
            \o <<"-">> \o StringOf(a.sha256_hash) \o <<"-">> \o StringOf(a.sequence)
            \o <<"-">> \o StringOf(a.address) \o <<"-">> \o StringOf(a.salt)

\* C2: the string a builder hashes, and whose digest it signs, is its
\* kind's canonical string: the fields in the stated order, one hyphen
\* between them (JSON(message) directly followed by the salt for signAuth).
C2_CanonicalString ==
    \A c \in Calls :
        /\ Entered(c) => msgHash[c] = sha256(CanonicalOfArgs(kind[c], args[c]))
        /\ Done(c) => signature[c].s.d = sha256(CanonicalOfArgs(kind[c], args[c]))

C2_Witness ==
    \E c \in Calls :
        /\ Done(c)
        /\ kind[c] = "signDmtMint"
        /\ args[c].ticker = sNAT
        /\ signature[c].s.d = sha256(CanonicalOfArgs(kind[c], args[c]))

\* C3: the verify step and the recover step of the self check both take the
\* digest re-derived from the assembled op's fields.
C3_SelfCheckReDerives ==
    \A c \in Calls :
        Done(c) =>
            LET digest == ReDerivedDigest(kind[c], EmittedOp(c), MessageKeyOf(c))
                sig == SignatureOf(EmbeddedSig(kind[c], proto[c]))
            IN  /\ test[c].valid = Verify(signature[c], digest, args[c].pubKey)
                /\ test[c].pubRecovered = RecoverPublicKey(sig, digest)

ExpectedOp(k) ==
    CASE k = "signAuth" -> sPrivilegeAuth
      [] k = "signVerification" -> sPrivilegeAuth
      [] k = "signMint" -> sTokenMint
      [] k = "signDmtMint" -> sDmtMint

\* C4: every emitted op has p = "tap" and the op tag of its builder.
C4_ProtocolMarkers ==
    \A c \in Calls :
        Done(c) =>
            /\ Same(Get(EmittedOp(c), kP), Str(sTap))
            /\ Same(Get(EmittedOp(c), kOp), Str(ExpectedOp(kind[c])))

Settled(c) == pc[c] \in {"done", "rejected"}

\* C5: signVerification with sequence 9007199254740992 fails with
\* SequenceOutOfRange and returns no op; with 9007199254740991 it returns one.
C5_SequenceRange ==
    \A c \in Calls :
        (/\ Settled(c)
         /\ kind[c] = "signVerification"
         /\ PrivateKeyValid(args[c].privKey)) =>
            /\ Same(args[c].sequence, Num(sAboveMaxSafe)) =>
                   (pc[c] = "rejected" /\ thrown[c] = "SequenceOutOfRange" /\ result[c] = <<>>)
            /\ Same(args[c].sequence, Num(sMaxSafe)) =>
                   (pc[c] = "done" /\ result[c] /= <<>>)

FieldsOf(c) == [args[c] EXCEPT !.privKey = 0, !.pubKey = StrayPoint, !.salt = Null]
EmbeddedDigest(c) == EmbeddedHash(kind[c], EmittedOp(c))

\* C7 as stated: same kind and fields, different salts: different embedded
\* digests; same salt: the same digest, whatever the nonce.
C7_SaltsSeparate ==
    \A c1, c2 \in Calls :
        (Done(c1) /\ Done(c2) /\ kind[c1] = kind[c2] /\ FieldsOf(c1) = FieldsOf(c2)) =>
            /\ ~Same(args[c1].salt, args[c2].salt) =>
                   ~Same(EmbeddedDigest(c1), EmbeddedDigest(c2))
            /\ Same(args[c1].salt, args[c2].salt) =>
                   Same(EmbeddedDigest(c1), EmbeddedDigest(c2))

\* C7: same kind and fields, salts with different string forms: different
\* embedded digests; salts with the same string form: the same digest,
\* whatever the nonce.
C7_SaltStringsSeparate ==
    \A c1, c2 \in Calls :
        (Done(c1) /\ Done(c2) /\ kind[c1] = kind[c2] /\ FieldsOf(c1) = FieldsOf(c2)) =>
            /\ StringOf(args[c1].salt) /= StringOf(args[c2].salt) =>
                   ~Same(EmbeddedDigest(c1), EmbeddedDigest(c2))
            /\ StringOf(args[c1].salt) = StringOf(args[c2].salt) =>
                   Same(EmbeddedDigest(c1), EmbeddedDigest(c2))

C7_Witness ==
    /\ Done(1) /\ Done(2)
    /\ kind[1] = "signVerification" /\ kind[2] = "signVerification"
    /\ FieldsOf(1) = FieldsOf(2)
    /\ StringOf(args[1].salt) /= StringOf(args[2].salt)
    /\ signature[1].r /= signature[2].r
    /\ ~Same(EmbeddedDigest(1), EmbeddedDigest(2))

\* what a call returns when it runs alone with nonce k
Proto0(k, a) ==
    CASE k = "signAuth" -> AuthProto(a.salt)
      [] k = "signMint" -> MintProto(a.ticker, a.amount, a.address, a.salt)
      [] k = "signDmtMint" -> DmtProto(a.ticker, a.block, a.dependency, a.address, a.salt)
      [] k = "signVerification" ->
            VerificationProto(a.privilege_authority_id, a.sha256_hash, a.collection,
                              a.sequence, a.address, a.salt)
Canonical0(k, a, p) ==
    CASE k = "signAuth" -> AuthCanonical(a.message, p)
      [] k = "signMint" -> MintCanonical(p)
      [] k = "signDmtMint" -> DmtCanonical(p)
      [] k = "signVerification" -> VerificationCanonical(p)
Assemble0(k, a, p, sig, digest) ==
    CASE k = "signAuth" -> AuthAssemble(p, a.messageKey, a.message, sig, digest)
      [] k = "signMint" -> PrvAssemble(p, sig, digest)
      [] k = "signDmtMint" -> PrvAssemble(p, sig, digest)
      [] k = "signVerification" -> TopAssemble(p, sig, digest)
Alone(k, a, nonce) ==
    LET p0 == Proto0(k, a)
        digest == sha256(Canonical0(k, a, p0))
        sig == Sign(digest, a.privKey, nonce)
        p == Assemble0(k, a, p0, sig, digest)
        mk == IF k = "signAuth" THEN a.messageKey ELSE <<>>
        testDigest == sha256(ReDerive(k, JSONRoundTrip(p), mk))
    IN  [result |-> JSONStringify(p),
         test |-> SelfTest(sig, EmbeddedSig(k, p), testDigest, digest, a.pubKey)]

\* a call in flight with others returns what it returns alone
C8_SameAsAlone ==
    \A c \in Calls :
        Done(c) =>
            LET alone == Alone(kind[c], args[c], signature[c].r)
            IN  result[c] = alone.result /\ test[c] = alone.test

\* the payload in the emitted op is the payload this call hashed and signed
C8_PayloadIsSigned ==
    \A c \in Calls :
        Done(c) =>
            /\ ReDerive(kind[c], EmittedOp(c), MessageKeyOf(c)) = msgHash[c].sha
            /\ signature[c].s.d = msgHash[c]

\* C8: builder calls interleaved at their await points are independent:
\* each returns the op and report it returns alone, and each emitted op
\* embeds the payload whose encoding that call hashed and signed.
C8_Independent == C8_SameAsAlone /\ C8_PayloadIsSigned

\* C9: signDmtMint called with tickers that differ in case only ("NAT",
\* "nat"), all else equal, hashes the same string and embeds the same digest,
\* and both ops carry the lower-cased ticker.
C9_CaseNormalization ==
    \A c1, c2 \in Calls :
        (/\ Done(c1) /\ Done(c2)
         /\ kind[c1] = "signDmtMint" /\ kind[c2] = "signDmtMint"
         /\ args[c1].ticker = sNAT /\ args[c2].ticker = snat
         /\ [FieldsOf(c1) EXCEPT !.ticker = Null] = [FieldsOf(c2) EXCEPT !.ticker = Null]
         /\ Same(args[c1].salt, args[c2].salt)) =>
            /\ msgHash[c1] = msgHash[c2]
            /\ Same(EmbeddedDigest(c1), EmbeddedDigest(c2))
            /\ Same(Get(EmittedOp(c1), kTick), snat)
            /\ Same(Get(EmittedOp(c2), kTick), snat)

C9_Witness ==
    /\ Done(1) /\ Done(2)
    /\ kind[1] = "signDmtMint" /\ kind[2] = "signDmtMint"
    /\ args[1].ticker = sNAT /\ args[2].ticker = snat
    /\ Same(args[1].salt, args[2].salt)
    /\ args[1].privKey /= args[2].privKey
    /\ msgHash[1] = msgHash[2]
    /\ Same(Get(EmittedOp(1), kTick), snat)

\* C10: in every returned op the embedded hash is the hex digest of the
\* canonical string recomputed from the op's fields as emitted, and the
\* embedded sig is non-null and signs that digest.
C10_EmbeddedHashMatches ==
    \A c \in Calls :
        Done(c) =>
            LET op == EmittedOp(c)
                digest == ReDerivedDigest(kind[c], op, MessageKeyOf(c))
            IN  /\ Same(EmbeddedHash(kind[c], op), Str(ToHex(digest)))
                /\ EmbeddedSig(kind[c], op).t = "obj"
                /\ SignatureOf(EmbeddedSig(kind[c], op)).s.d = digest

====
